---- MODULE Spec2Model ----
(***************************************************************************)
(* Model of src/python/script.py: a one-shot pipeline that reads a JSON    *)
(* document from standard input, looks up "name" (default "World"),        *)
(* formats "Hello, {name}!" and prints {"message": ...} as one JSON line.  *)
(*                                                                         *)
(* Text is a sequence of Unicode code points (Python str).  Python values  *)
(* are records tagged by t:                                                *)
(*   [t |-> "str", v |-> text]        [t |-> "int", v |-> Int]             *)
(*   [t |-> "float", neg, whole, frac, special]                            *)
(*   [t |-> "bool", v |-> BOOLEAN]    [t |-> "none"]                       *)
(*   [t |-> "list", v |-> <<values>>]                                      *)
(*   [t |-> "dict", v |-> <<[key |-> text, val |-> value]>>]  (insertion   *)
(*                                                              order)     *)
(***************************************************************************)
EXTENDS Integers, Sequences, FiniteSets, TLC

VARIABLES
    given,        \* what the input is by construction; no step of the run reads it
    pc,           \* the statement the interpreter is at
    stdin,        \* the unread text of standard input
    input_data,   \* script.py's variables, Unbound until assigned
    data,
    name,
    result,
    encoded,      \* the value of json.dumps(result), print's argument
    stdout,       \* the text written to standard output
    raised,       \* the uncaught exception, "" when none
    exit_status   \* the process's exit status, -1 while it runs

vars == <<given, pc, stdin, input_data, data, name, result, encoded, stdout,
          raised, exit_status>>

-----------------------------------------------------------------------------
(* Bounds of the input enumeration.                                        *)

\* longest "name" string literal, counted in literal items
MaxLen == 2

-----------------------------------------------------------------------------
(* Text helpers.                                                           *)

\* LET x == e IN F(x) with e computed once: TLC computes a LET
\* definition or an operator argument anew at every use when it evaluates
\* ENABLED, and a bound variable once.
Bind(e, F(_)) == CHOOSE out \in {F(x) : x \in {e}} : TRUE

\* "".join(ss), by halves
RECURSIVE Concat(_)
Concat(ss0) ==
    Bind(ss0, LAMBDA ss :
        IF Len(ss) = 0 THEN <<>>
        ELSE IF Len(ss) = 1 THEN ss[1]
        ELSE Concat(SubSeq(ss, 1, Len(ss) \div 2)) \o
             Concat(SubSeq(ss, Len(ss) \div 2 + 1, Len(ss))))

StartsWith(s, i, lit) ==
    /\ i + Len(lit) - 1 <= Len(s)
    /\ SubSeq(s, i, i + Len(lit) - 1) = lit

IsDigit(c) == c \in 48..57

\* int(c, 16) of one character, -1 when c is no hex digit
HexVal(c) ==
    IF c \in 48..57 THEN c - 48
    ELSE IF c \in 97..102 THEN c - 87
    ELSE IF c \in 65..70 THEN c - 55
    ELSE -1

\* "0123456789abcdef"[d]
HexDigit(d) == IF d < 10 THEN 48 + d ELSE 87 + d

\* str(n) for n >= 0
RECURSIVE DecDigits(_)
DecDigits(n) == IF n < 10 THEN <<48 + n>> ELSE Append(DecDigits(n \div 10), 48 + (n % 10))

\* int(digits) for a run of decimal digits
RECURSIVE DecVal(_)
DecVal(ds) ==
    IF ds = <<>> THEN 0
    ELSE 10 * DecVal(SubSeq(ds, 1, Len(ds) - 1)) + (ds[Len(ds)] - 48)

-----------------------------------------------------------------------------
(* Python values.                                                          *)

PyStrVal(s)   == [t |-> "str", v |-> s]
PyInt(n)      == [t |-> "int", v |-> n]
PyBool(b)     == [t |-> "bool", v |-> b]
PyNone        == [t |-> "none"]
PyList(xs)    == [t |-> "list", v |-> xs]
PyDict(ps)    == [t |-> "dict", v |-> ps]
\* a finite float whole.frac (frac without trailing zeros, never empty)
PyFloat(neg, whole, frac) ==
    [t |-> "float", special |-> "", neg |-> neg, whole |-> whole, frac |-> frac]
\* float('nan'), float('inf'), float('-inf')
PyFloatSpecial(which) ==
    [t |-> "float", special |-> which, neg |-> FALSE, whole |-> 0, frac |-> <<48>>]

\* d[k] = v on an insertion-ordered dict: a present key keeps its position
RECURSIVE DictSet(_, _, _)
DictSet(ps, k, v) ==
    IF ps = <<>> THEN <<[key |-> k, val |-> v]>>
    ELSE IF Head(ps).key = k THEN <<[key |-> k, val |-> v]>> \o Tail(ps)
    ELSE <<Head(ps)>> \o DictSet(Tail(ps), k, v)

\* dict.get(k, default)
RECURSIVE DictGet(_, _, _)
DictGet(ps, k, default) ==
    IF ps = <<>> THEN default
    ELSE IF Head(ps).key = k THEN Head(ps).val
    ELSE DictGet(Tail(ps), k, default)

-----------------------------------------------------------------------------
(* json.loads: the standard library decoder (json/decoder.py,              *)
(* json/scanner.py), called at script.py line 11.  Every operator returns  *)
(* [ok |-> TRUE, val, end] (end = index of the next unread character) or   *)
(* DecodeError for a raised JSONDecodeError.                               *)

DecodeError == [ok |-> FALSE]
Decoded(v, e) == [ok |-> TRUE, val |-> v, end |-> e]

\* WHITESPACE = ' \t\n\r'
WHITESPACE_STR == {32, 9, 10, 13}

\* WHITESPACE.match(s, i).end(): the index of the first character at or
\* after i that is no whitespace, the end of s when there is none
SkipWS(s, i) ==
    IF \E j \in i..Len(s) : s[j] \notin WHITESPACE_STR
    THEN CHOOSE j \in i..Len(s) :
             /\ s[j] \notin WHITESPACE_STR
             /\ \A k \in i..(j - 1) : s[k] \in WHITESPACE_STR
    ELSE IF i > Len(s) THEN i ELSE Len(s) + 1

\* BACKSLASH = {'"': '"', '\\': '\\', '/': '/', 'b': '\b', 'f': '\f',
\*              'n': '\n', 'r': '\r', 't': '\t'}
BACKSLASH ==
    (34 :> 34) @@ (92 :> 92) @@ (47 :> 47) @@ (98 :> 8) @@ (102 :> 12) @@
    (110 :> 10) @@ (114 :> 13) @@ (116 :> 9)

\* _decode_uXXXX: the four hex digits at s[i..i+3], -1 when they are not
Hex4(s, i) ==
    IF i + 3 > Len(s) THEN -1
    ELSE LET a == HexVal(s[i])
             b == HexVal(s[i + 1])
             c == HexVal(s[i + 2])
             d == HexVal(s[i + 3])
         IN  IF a < 0 \/ b < 0 \/ c < 0 \/ d < 0 THEN -1
             ELSE 4096 * a + 256 * b + 16 * c + d

\* STRINGCHUNK = (.*?)(["\\\x00-\x1f]): a terminator of a chunk of string content
IsTerminator(c) == c = 34 \/ c = 92 \/ c < 32

\* STRINGCHUNK.match(s, i): the index of the first terminator at or after i,
\* Len(s) + 1 when there is none (the match fails)
ChunkEnd(s, i) ==
    IF \E j \in i..Len(s) : IsTerminator(s[j])
    THEN CHOOSE j \in i..Len(s) :
             /\ IsTerminator(s[j])
             /\ \A k \in i..(j - 1) : ~IsTerminator(s[k])
    ELSE Len(s) + 1

\* py_scanstring at a backslash s[i]: the character the escape sequence
\* denotes and the index after the sequence
ScanEscape(s, i) ==
    IF i + 1 > Len(s) THEN DecodeError                \* unterminated string
    ELSE IF s[i + 1] # 117 THEN
        IF s[i + 1] \in DOMAIN BACKSLASH
        THEN Decoded(BACKSLASH[s[i + 1]], i + 2)
        ELSE DecodeError                              \* invalid \escape
    ELSE Bind(Hex4(s, i + 2), LAMBDA uni :
        IF uni < 0 THEN DecodeError                   \* invalid \uXXXX escape
        ELSE IF uni \in 55296..56319 /\ StartsWith(s, i + 6, <<92, 117>>) THEN
            Bind(Hex4(s, i + 8), LAMBDA uni2 :
            IF uni2 < 0 THEN DecodeError
            ELSE IF uni2 \in 56320..57343
            THEN Decoded(65536 + (uni - 55296) * 1024 + (uni2 - 56320), i + 12)
            ELSE Decoded(uni, i + 6))
        ELSE Decoded(uni, i + 6))

\* py_scanstring(s, end, strict=True): i0 is the index after the opening
\* quote or the last character taken, acc0 the characters so far; each round
\* takes one chunk of content and the terminator after it
RECURSIVE ScanString(_, _, _)
ScanString(s, i0, acc0) ==
    Bind(<<ChunkEnd(s, i0), acc0>>, LAMBDA st :
    LET i   == st[1]
        acc == st[2] \o SubSeq(s, i0, i - 1)
    IN
    IF i > Len(s) THEN DecodeError                    \* unterminated string
    ELSE IF s[i] = 34 THEN Decoded(acc, i + 1)        \* closing quote
    ELSE IF s[i] # 92 THEN DecodeError                \* invalid control character
    ELSE Bind(ScanEscape(s, i), LAMBDA esc :
        IF esc.ok THEN ScanString(s, esc.end, Append(acc, esc.val))
        ELSE DecodeError))

\* the end of the run of digits at i
DigitsEnd(s, i) ==
    IF \E j \in i..Len(s) : ~IsDigit(s[j])
    THEN CHOOSE j \in i..Len(s) :
             /\ ~IsDigit(s[j])
             /\ \A k \in i..(j - 1) : IsDigit(s[k])
    ELSE IF i > Len(s) THEN i ELSE Len(s) + 1

RECURSIVE StripZeros(_)
StripZeros(ds) ==
    IF Len(ds) > 1 /\ ds[Len(ds)] = 48 THEN StripZeros(SubSeq(ds, 1, Len(ds) - 1)) ELSE ds

\* NUMBER_RE.match at i, groups integer and frac:
\*   (-?(?:0|[1-9]\d*))(\.\d+)?
\* then int(integer) or float(integer + frac).  The exponent group is not
\* modelled: no input of the model has one.
ScanNumber(s, i) ==
    LET neg == i <= Len(s) /\ s[i] = 45
        j   == IF neg THEN i + 1 ELSE i
    IN  IF j > Len(s) \/ ~IsDigit(s[j]) THEN DecodeError
        ELSE Bind(IF s[j] = 48 THEN j + 1 ELSE DigitsEnd(s, j), LAMBDA intEnd :
             LET whole   == DecVal(SubSeq(s, j, intEnd - 1))
                 hasFrac == /\ intEnd + 1 <= Len(s)
                            /\ s[intEnd] = 46
                            /\ IsDigit(s[intEnd + 1])
             IN  IF hasFrac
                 THEN Bind(DigitsEnd(s, intEnd + 1), LAMBDA fracEnd :
                          Decoded(PyFloat(neg, whole,
                                      StripZeros(SubSeq(s, intEnd + 1, fracEnd - 1))),
                                  fracEnd))
                 ELSE Decoded(PyInt(IF neg THEN -whole ELSE whole), intEnd))

Lit_null     == <<110, 117, 108, 108>>
Lit_true     == <<116, 114, 117, 101>>
Lit_false    == <<102, 97, 108, 115, 101>>
Lit_NaN      == <<78, 97, 78>>
Lit_Infinity == <<73, 110, 102, 105, 110, 105, 116, 121>>
Lit_NegInfinity == <<45>> \o Lit_Infinity

RECURSIVE ScanOnce(_, _)
RECURSIVE JSONObject(_, _, _)
RECURSIVE JSONArray(_, _, _)

\* py_make_scanner._scan_once(string, idx)
ScanOnce(s, i) ==
    IF i > Len(s) THEN DecodeError                    \* StopIteration: expecting value
    ELSE IF s[i] = 34 THEN
        Bind(ScanString(s, i + 1, <<>>), LAMBDA r :
            IF r.ok THEN Decoded(PyStrVal(r.val), r.end) ELSE DecodeError)
    ELSE IF s[i] = 123 THEN
        LET k == SkipWS(s, i + 1)
        IN  IF k <= Len(s) /\ s[k] = 125 THEN Decoded(PyDict(<<>>), k + 1)
            ELSE JSONObject(s, k, <<>>)
    ELSE IF s[i] = 91 THEN
        LET k == SkipWS(s, i + 1)
        IN  IF k <= Len(s) /\ s[k] = 93 THEN Decoded(PyList(<<>>), k + 1)
            ELSE JSONArray(s, k, <<>>)
    ELSE IF StartsWith(s, i, Lit_null) THEN Decoded(PyNone, i + 4)
    ELSE IF StartsWith(s, i, Lit_true) THEN Decoded(PyBool(TRUE), i + 4)
    ELSE IF StartsWith(s, i, Lit_false) THEN Decoded(PyBool(FALSE), i + 5)
    ELSE Bind(ScanNumber(s, i), LAMBDA m :
    IF m.ok THEN m
    ELSE IF StartsWith(s, i, Lit_NaN) THEN Decoded(PyFloatSpecial("nan"), i + 3)
    ELSE IF StartsWith(s, i, Lit_Infinity) THEN Decoded(PyFloatSpecial("inf"), i + 8)
    ELSE IF StartsWith(s, i, Lit_NegInfinity) THEN Decoded(PyFloatSpecial("-inf"), i + 9)
    ELSE DecodeError)

\* JSONObject at the opening quote s[i] of a key: the key and the index
\* where its value begins, after the ':' and the whitespace around it
ObjectKey(s, i) ==
    IF i > Len(s) \/ s[i] # 34 THEN DecodeError       \* expecting property name
    ELSE Bind(ScanString(s, i + 1, <<>>), LAMBDA key :
    IF ~key.ok THEN DecodeError
    ELSE Bind(SkipWS(s, key.end), LAMBDA c :
    IF c > Len(s) \/ s[c] # 58 THEN DecodeError       \* expecting ':'
    ELSE Decoded(key.val, SkipWS(s, c + 1))))

\* one round of JSONObject's loop, i at the opening quote of a key: the
\* key, its value, whether a ',' follows, and the index of the next key or
\* of the character after the closing brace
ObjectPair(s, i) ==
    Bind(ObjectKey(s, i), LAMBDA key :
    IF ~key.ok THEN DecodeError
    ELSE Bind(ScanOnce(s, key.end), LAMBDA value :
    IF ~value.ok THEN DecodeError
    ELSE Bind(SkipWS(s, value.end), LAMBDA e :
    IF e > Len(s) THEN DecodeError
    ELSE IF s[e] = 125
    THEN [ok |-> TRUE, key |-> key.val, val |-> value.val, more |-> FALSE,
          end |-> e + 1]
    ELSE IF s[e] # 44 THEN DecodeError                \* expecting ',' delimiter
    ELSE [ok |-> TRUE, key |-> key.val, val |-> value.val, more |-> TRUE,
          end |-> SkipWS(s, e + 1)])))

\* JSONObject's loop: i0 is at the opening quote of the next key, ps0 the
\* pairs so far (dict(pairs): a repeated key takes the last value)
JSONObject(s, i0, ps0) ==
    Bind(<<ObjectPair(s, i0), ps0>>, LAMBDA st :
    IF ~st[1].ok THEN DecodeError
    ELSE IF st[1].more
    THEN JSONObject(s, st[1].end, DictSet(st[2], st[1].key, st[1].val))
    ELSE Decoded(PyDict(DictSet(st[2], st[1].key, st[1].val)), st[1].end))

\* one round of JSONArray's loop, i at the start of an element: the element,
\* whether a ',' follows, and the index of the next element or of the
\* character after the closing bracket
ArrayItem(s, i) ==
    Bind(ScanOnce(s, i), LAMBDA value :
    IF ~value.ok THEN DecodeError
    ELSE Bind(SkipWS(s, value.end), LAMBDA e :
    IF e > Len(s) THEN DecodeError
    ELSE IF s[e] = 93
    THEN [ok |-> TRUE, val |-> value.val, more |-> FALSE, end |-> e + 1]
    ELSE IF s[e] # 44 THEN DecodeError                \* expecting ',' delimiter
    ELSE [ok |-> TRUE, val |-> value.val, more |-> TRUE,
          end |-> SkipWS(s, e + 1)]))

\* JSONArray's loop: i0 is at the start of the next element, xs0 the
\* elements so far
JSONArray(s, i0, xs0) ==
    Bind(<<ArrayItem(s, i0), xs0>>, LAMBDA st :
    IF ~st[1].ok THEN DecodeError
    ELSE IF st[1].more
    THEN JSONArray(s, st[1].end, Append(st[2], st[1].val))
    ELSE Decoded(PyList(Append(st[2], st[1].val)), st[1].end))

\* raw_decode alone: whatever follows the first value is ignored
JsonLoads_NoEndCheck(s) ==
    IF Len(s) > 0 /\ s[1] = 65279 THEN DecodeError
    ELSE ScanOnce(s, SkipWS(s, 1))

\* json.loads(s) for a str s: BOM check, then JSONDecoder.decode
\* (raw_decode after leading whitespace, "Extra data" unless only
\* whitespace follows the value)
JsonLoads(s) ==
    IF Len(s) > 0 /\ s[1] = 65279 THEN DecodeError    \* unexpected UTF-8 BOM
    ELSE Bind(ScanOnce(s, SkipWS(s, 1)), LAMBDA r :
             IF ~r.ok THEN DecodeError
             ELSE IF SkipWS(s, r.end) # Len(s) + 1 THEN DecodeError
             ELSE r)

-----------------------------------------------------------------------------
(* str() and repr() of the decoded values: what the f-string of greet      *)
(* (script.py line 5) applies to its argument, format(name, "") being      *)
(* str(name) for every type json.loads produces.                           *)

\* Py_UNICODE_ISPRINTABLE on the non-ASCII code points: the C1 controls,
\* NBSP, the soft hyphen, the separators U+2028/9, the surrogates and the
\* BOM are not printable (the table is not modelled beyond these)
IsPrintable(c) ==
    /\ c \notin 128..160
    /\ c # 173
    /\ c \notin 8232..8233
    /\ c \notin 55296..57343
    /\ c # 65279

\* one character of unicode_repr with the chosen quote
ReprChar(c, quote) ==
    IF c = quote \/ c = 92 THEN <<92, c>>
    ELSE IF c = 9 THEN <<92, 116>>
    ELSE IF c = 10 THEN <<92, 110>>
    ELSE IF c = 13 THEN <<92, 114>>
    ELSE IF c < 32 \/ c = 127 THEN <<92, 120, HexDigit(c \div 16), HexDigit(c % 16)>>
    ELSE IF c < 127 \/ IsPrintable(c) THEN <<c>>
    ELSE IF c < 256 THEN <<92, 120, HexDigit(c \div 16), HexDigit(c % 16)>>
    ELSE IF c < 65536 THEN
        <<92, 117, HexDigit(c \div 4096), HexDigit((c \div 256) % 16),
          HexDigit((c \div 16) % 16), HexDigit(c % 16)>>
    ELSE
        <<92, 85, 48, 48, HexDigit(c \div 1048576), HexDigit((c \div 65536) % 16),
          HexDigit((c \div 4096) % 16), HexDigit((c \div 256) % 16),
          HexDigit((c \div 16) % 16), HexDigit(c % 16)>>

\* repr(s) of a str: single quotes unless s has a ' and no "
ReprStr(s) ==
    LET chars == {s[i] : i \in 1..Len(s)}
        quote == IF 39 \in chars /\ 34 \notin chars THEN 34 ELSE 39
    IN  <<quote>> \o Concat([i \in 1..Len(s) |-> ReprChar(s[i], quote)]) \o <<quote>>

\* float.__repr__
ReprFloat(x) ==
    IF x.special = "nan" THEN <<110, 97, 110>>
    ELSE IF x.special = "inf" THEN <<105, 110, 102>>
    ELSE IF x.special = "-inf" THEN <<45, 105, 110, 102>>
    ELSE (IF x.neg THEN <<45>> ELSE <<>>) \o DecDigits(x.whole) \o <<46>> \o x.frac

Txt_None  == <<78, 111, 110, 101>>
Txt_True  == <<84, 114, 117, 101>>
Txt_False == <<70, 97, 108, 115, 101>>

RECURSIVE JoinWith(_, _)
JoinWith(parts, sep) ==
    IF parts = <<>> THEN <<>>
    ELSE IF Len(parts) = 1 THEN parts[1]
    ELSE parts[1] \o sep \o JoinWith(Tail(parts), sep)

\* repr(x)
RECURSIVE PyRepr(_)
PyRepr(x) ==
    IF x.t = "str" THEN ReprStr(x.v)
    ELSE IF x.t = "none" THEN Txt_None
    ELSE IF x.t = "bool" THEN (IF x.v THEN Txt_True ELSE Txt_False)
    ELSE IF x.t = "int" THEN
        (IF x.v < 0 THEN <<45>> \o DecDigits(-x.v) ELSE DecDigits(x.v))
    ELSE IF x.t = "float" THEN ReprFloat(x)
    ELSE IF x.t = "list" THEN
        <<91>> \o JoinWith([i \in 1..Len(x.v) |-> PyRepr(x.v[i])], <<44, 32>>) \o <<93>>
    ELSE \* dict
        <<123>> \o
        JoinWith([i \in 1..Len(x.v) |->
                     ReprStr(x.v[i].key) \o <<58, 32>> \o PyRepr(x.v[i].val)],
                 <<44, 32>>) \o
        <<125>>

\* str(x): the text itself for a str, repr(x) for every other type
PyStr(x) == IF x.t = "str" THEN x.v ELSE PyRepr(x)

\* "Hello, "
Txt_Hello == <<72, 101, 108, 108, 111, 44, 32>>
\* "World"
Txt_World == <<87, 111, 114, 108, 100>>
\* "message"
Txt_message == <<109, 101, 115, 115, 97, 103, 101>>
\* "name"
Txt_name == <<110, 97, 109, 101>>

\* a raised exception as the outcome of a call
Raised(exc) == [t |-> "error", exc |-> exc]

\* greet variants: {name!r} for {name}; a default for whatever is no str;
\* "Hello, " + name + "!", which only a str supports
greet_Repr(arg) == PyStrVal(Txt_Hello \o PyRepr(arg) \o <<33>>)

greet_StringsOnly(arg) ==
    PyStrVal(Txt_Hello \o (IF arg.t = "str" THEN arg.v ELSE Txt_World) \o <<33>>)

greet_Concat(arg) ==
    IF arg.t = "str" THEN PyStrVal(Txt_Hello \o arg.v \o <<33>>) ELSE Raised("TypeError")

\* def greet(name): return f"Hello, {name}!"
greet(arg) == PyStrVal(Txt_Hello \o PyStr(arg) \o <<33>>)

\* the call with a signature greet(name="World")
CallGreet_DefaultWorld(args) ==
    IF Len(args) = 0 THEN greet(PyStrVal(Txt_World))
    ELSE IF Len(args) # 1 THEN Raised("TypeError")
    ELSE greet(args[1])

\* a call greet(*args): the signature has one required parameter and no
\* default, so any other number of arguments is a TypeError
CallGreet(args) == IF Len(args) # 1 THEN Raised("TypeError") ELSE greet(args[1])

\* lookup variants: data.get("name"); data.get("name", data.get("id", "World"))
LookupName_NoDefault(d) == DictGet(d.v, Txt_name, PyNone)

LookupName_IdFallback(d) ==
    DictGet(d.v, Txt_name, DictGet(d.v, <<105, 100>>, PyStrVal(Txt_World)))

\* data.get("name", "World") on a dict
LookupName(d) == DictGet(d.v, Txt_name, PyStrVal(Txt_World))

\* {"message": <greeting>}
MakeResult(greeting) == PyDict(<<[key |-> Txt_message, val |-> greeting]>>)

-----------------------------------------------------------------------------
(* json.dumps with its defaults (ensure_ascii=True, separators ', ' and    *)
(* ': '), called at script.py line 16.                                     *)

\* an escape table with the quote and the backslash only
EscapeAscii_QuotesOnly(c) == IF c = 92 \/ c = 34 THEN <<92, c>> ELSE <<c>>

\* one character of py_encode_basestring_ascii
EscapeAscii(c) ==
    IF c = 92 THEN <<92, 92>>
    ELSE IF c = 34 THEN <<92, 34>>
    ELSE IF c = 8 THEN <<92, 98>>
    ELSE IF c = 12 THEN <<92, 102>>
    ELSE IF c = 10 THEN <<92, 110>>
    ELSE IF c = 13 THEN <<92, 114>>
    ELSE IF c = 9 THEN <<92, 116>>
    ELSE IF c \in 32..126 THEN <<c>>
    ELSE IF c < 65536 THEN
        <<92, 117, HexDigit(c \div 4096), HexDigit((c \div 256) % 16),
          HexDigit((c \div 16) % 16), HexDigit(c % 16)>>
    ELSE LET m  == c - 65536
             s1 == 55296 + (m \div 1024)
             s2 == 56320 + (m % 1024)
         IN  <<92, 117, HexDigit(s1 \div 4096), HexDigit((s1 \div 256) % 16),
               HexDigit((s1 \div 16) % 16), HexDigit(s1 % 16),
               92, 117, HexDigit(s2 \div 4096), HexDigit((s2 \div 256) % 16),
               HexDigit((s2 \div 16) % 16), HexDigit(s2 % 16)>>

\* the text between quotes, unescaped
EncodeString_NoEscape(s) == <<34>> \o s \o <<34>>

\* encode_basestring_ascii(s)
EncodeString(s) ==
    <<34>> \o Concat([i \in 1..Len(s) |-> EscapeAscii(s[i])]) \o <<34>>

\* JSONEncoder.encode(o)
RECURSIVE JsonDumps(_)
JsonDumps(o) ==
    IF o.t = "str" THEN EncodeString(o.v)
    ELSE IF o.t = "none" THEN Lit_null
    ELSE IF o.t = "bool" THEN (IF o.v THEN Lit_true ELSE Lit_false)
    ELSE IF o.t = "int" THEN PyRepr(o)
    ELSE IF o.t = "float" THEN
        (IF o.special = "nan" THEN Lit_NaN
         ELSE IF o.special = "inf" THEN Lit_Infinity
         ELSE IF o.special = "-inf" THEN Lit_NegInfinity
         ELSE ReprFloat(o))
    ELSE IF o.t = "list" THEN
        <<91>> \o JoinWith([i \in 1..Len(o.v) |-> JsonDumps(o.v[i])], <<44, 32>>) \o <<93>>
    ELSE \* dict with str keys
        <<123>> \o
        JoinWith([i \in 1..Len(o.v) |->
                     EncodeString(o.v[i].key) \o <<58, 32>> \o JsonDumps(o.v[i].val)],
                 <<44, 32>>) \o
        <<125>>

-----------------------------------------------------------------------------
(* The inputs: the texts a run may find on standard input.  Each comes     *)
(* with what it is by construction, read against RFC 8259 and never        *)
(* through the decoder above:                                              *)
(*   syntax  "json" (a JSON text), "nonfinite" (a JSON text but for the    *)
(*           tokens NaN, Infinity, -Infinity in value position),           *)
(*           "malformed", "empty" (no text or only whitespace)             *)
(*   root    "object", "other" (the root value), "none" (no value)         *)
(*   shape   of an object: "name_str", "name_other" (one "name" member,    *)
(*           a string or not), "no_name", "dup_name"; "n/a" otherwise      *)
(*   lit, n  the literal of the "name" value and, for a string, the text   *)
(*           it denotes; pre, post the members before and after it         *)

Given(text, syntax, root, shape, lit, n, pre, post) ==
    [text |-> text, syntax |-> syntax, root |-> root, shape |-> shape,
     lit |-> lit, n |-> n, pre |-> pre, post |-> post]

Plain(text, syntax, root, shape) == Given(text, syntax, root, shape, <<>>, <<>>, <<>>, <<>>)

\* one item of a string literal: its source text and the code point it
\* denotes (-1: not allowed in a JSON string)
Item(src, cp) == [src |-> src, cp |-> cp]

ValidItems ==
    { Item(<<65>>, 65)                              \* A
    , Item(<<233>>, 233)                            \* e-acute, raw
    , Item(<<92, 34>>, 34)                          \* \"
    , Item(<<92, 92>>, 92)                          \* \\
    , Item(<<92, 110>>, 10)                         \* \n
    , Item(<<92, 117, 48, 48, 69, 57>>, 233)        \* \u00E9
    , Item(<<92, 117, 100, 56, 51, 100>>, 55357)    \* \ud83d, a high surrogate
    , Item(<<92, 117, 100, 101, 48, 48>>, 56832)    \* \ude00, a low surrogate
    }

InvalidItems ==
    { Item(<<10>>, -1)                              \* a raw line feed
    , Item(<<92, 97>>, -1)                          \* \a
    }

Items == ValidItems \cup InvalidItems

ItemSeqs == UNION {[1..k -> Items] : k \in 0..MaxLen}

\* the text a string literal denotes: an escaped high surrogate followed by
\* an escaped low surrogate is one character (RFC 8259, section 7)
RECURSIVE Denoted(_)
Denoted(its) ==
    IF its = <<>> THEN <<>>
    ELSE IF /\ Len(its) >= 2
            /\ its[1].cp \in 55296..56319
            /\ its[2].cp \in 56320..57343
    THEN <<65536 + (its[1].cp - 55296) * 1024 + (its[2].cp - 56320)>>
         \o Denoted(SubSeq(its, 3, Len(its)))
    ELSE <<its[1].cp>> \o Denoted(Tail(its))

StringLiteral(its) == <<34>> \o Concat([i \in 1..Len(its) |-> its[i].src]) \o <<34>>

\* "name": 
Member_name == <<34, 110, 97, 109, 101, 34, 58, 32>>

Pres ==
    { <<>>
    , <<34, 105, 100, 34, 58, 32, 55, 44, 32>>   \* "id": 7, 
    }

Posts ==
    { <<>>
    , <<44, 32, 34, 120, 34, 58, 32, 91, 34, 110, 97, 109, 101, 34, 44, 32, 110, 117, 108, 108, 93>>   \* , "x": ["name", null]
    }

ObjectText(pre, lit, post) == <<123>> \o pre \o Member_name \o lit \o post \o <<125>>

\* the other members around a string "name": none, or one on each side
StringExtras == {<<pre, post>> \in Pres \X Posts : (pre = <<>>) <=> (post = <<>>)}

\* {"name": <string literal>} with and without other members
NameStringDocs ==
    { IF \A i \in 1..Len(its) : its[i].cp >= 0
      THEN Given(ObjectText(x[1], StringLiteral(its), x[2]), "json", "object",
                 "name_str", StringLiteral(its), Denoted(its), x[1], x[2])
      ELSE Given(ObjectText(x[1], StringLiteral(its), x[2]), "malformed", "none",
                 "n/a", StringLiteral(its), <<>>, x[1], x[2])
      : its \in ItemSeqs, x \in StringExtras }

NameOtherJson ==
    {
      <<110, 117, 108, 108>>   \* null
    , <<116, 114, 117, 101>>   \* true
    , <<102, 97, 108, 115, 101>>   \* false
    , <<48>>   \* 0
    , <<45, 48>>   \* -0
    , <<52, 50>>   \* 42
    , <<45, 55>>   \* -7
    , <<49, 46, 53, 48>>   \* 1.50
    , <<45, 48, 46, 48>>   \* -0.0
    , <<91, 93>>   \* []
    , <<123, 125>>   \* {}
    , <<91, 49, 44, 32, 34, 65, 39, 34, 44, 32, 116, 114, 117, 101, 44, 32, 50, 46, 48, 93>>   \* [1, "A'", true, 2.0]
    , <<123, 34, 97, 34, 58, 32, 110, 117, 108, 108, 44, 32, 34, 98, 34, 58, 32, 34, 92, 110, 92, 34, 39, 34, 125>>   \* {"a": null, "b": "\n\"'"}
    }

NameOtherNonfinite ==
    {
      <<78, 97, 78>>   \* NaN
    , <<73, 110, 102, 105, 110, 105, 116, 121>>   \* Infinity
    , <<45, 73, 110, 102, 105, 110, 105, 116, 121>>   \* -Infinity
    , <<91, 78, 97, 78, 93>>   \* [NaN]
    }

\* {"name": <a value that is no string>} with and without other members
NameOtherDocs ==
    { Given(ObjectText(pre, lit, post),
            IF lit \in NameOtherJson THEN "json" ELSE "nonfinite",
            "object", "name_other", lit, <<>>, pre, post)
      : lit \in NameOtherJson \cup NameOtherNonfinite, pre \in Pres, post \in Posts }

\* objects without a "name" member of their own
NoNameTexts ==
    {
      <<123, 125>>   \* {}
    , <<123, 34, 105, 100, 34, 58, 32, 55, 125>>   \* {"id": 7}
    , <<123, 34, 120, 34, 58, 32, 91, 34, 110, 97, 109, 101, 34, 44, 32, 110, 117, 108, 108, 93, 125>>   \* {"x": ["name", null]}
    , <<123, 34, 105, 100, 34, 58, 32, 55, 44, 32, 34, 120, 34, 58, 32, 91, 34, 110, 97, 109, 101, 34, 44, 32, 110, 117, 108, 108, 93, 125>>   \* {"id": 7, "x": ["name", null]}
    , <<123, 34, 78, 97, 109, 101, 34, 58, 32, 34, 65, 34, 125>>   \* {"Name": "A"}
    , <<123, 34, 120, 34, 58, 32, 123, 34, 110, 97, 109, 101, 34, 58, 32, 34, 65, 34, 125, 125>>   \* {"x": {"name": "A"}}
    , <<32, 123, 34, 105, 100, 34, 58, 32, 55, 125, 10>>   \*  {"id": 7}<LF>
    , <<123, 10, 32, 34, 105, 100, 34, 58, 32, 55, 10, 125, 10>>   \* {<LF> "id": 7<LF>}<LF>
    , <<123, 34, 120, 34, 58, 32, 78, 97, 78, 125>>   \* {"x": NaN}
    }

NoNameDocs ==
    { Plain(text,
            IF text = <<123, 34, 120, 34, 58, 32, 78, 97, 78, 125>> THEN "nonfinite" ELSE "json",
            "object", "no_name")
      : text \in NoNameTexts }

\* {"name": "A", "name": <literal>}: a repeated member
DupNameDocs ==
    { Given(ObjectText(<<34, 110, 97, 109, 101, 34, 58, 32, 34, 65, 34, 44, 32>>, lit, <<>>), "json", "object",
            "dup_name", lit, <<>>, <<>>, <<>>)
      : lit \in {<<34, 66, 34>>, <<110, 117, 108, 108>>} }

NonObjectJson ==
    {
      <<52, 50>>   \* 42
    , <<34, 65, 34>>   \* "A"
    , <<34, 110, 97, 109, 101, 34>>   \* "name"
    , <<91, 49, 44, 50, 44, 51, 93>>   \* [1,2,3]
    , <<116, 114, 117, 101>>   \* true
    , <<110, 117, 108, 108>>   \* null
    , <<45, 49, 46, 53>>   \* -1.5
    , <<91, 123, 34, 110, 97, 109, 101, 34, 58, 32, 34, 65, 34, 125, 93>>   \* [{"name": "A"}]
    , <<32, 34, 65, 34, 10>>   \*  "A"<LF>
    }

NonObjectNonfinite ==
    {
      <<78, 97, 78>>   \* NaN
    , <<45, 73, 110, 102, 105, 110, 105, 116, 121>>   \* -Infinity
    , <<91, 73, 110, 102, 105, 110, 105, 116, 121, 93>>   \* [Infinity]
    }

NonObjectDocs ==
    { Plain(text, IF text \in NonObjectJson THEN "json" ELSE "nonfinite", "other", "n/a")
      : text \in NonObjectJson \cup NonObjectNonfinite }

MalformedTexts ==
    {
      <<123>>   \* {
    , <<123, 34, 110, 97, 109, 101, 34>>   \* {"name"
    , <<123, 34, 110, 97, 109, 101, 34, 58, 32, 125>>   \* {"name": }
    , <<123, 34, 110, 97, 109, 101, 34, 58, 32, 34, 65, 34>>   \* {"name": "A"
    , <<123, 34, 110, 97, 109, 101, 34, 58, 32, 34, 65, 34, 44, 125>>   \* {"name": "A",}
    , <<123, 110, 97, 109, 101, 58, 32, 34, 65, 34, 125>>   \* {name: "A"}
    , <<123, 39, 110, 97, 109, 101, 39, 58, 32, 39, 65, 39, 125>>   \* {'name': 'A'}
    , <<123, 34, 110, 97, 109, 101, 34, 58, 32, 34, 65, 34, 125, 32, 120>>   \* {"name": "A"} x
    , <<123, 34, 110, 97, 109, 101, 34, 58, 32, 34, 65, 34, 125, 123, 125>>   \* {"name": "A"}{}
    , <<110, 117, 108>>   \* nul
    , <<91, 49, 44, 93>>   \* [1,]
    , <<123, 34, 110, 97, 109, 101, 34, 58, 32, 34, 65, 34, 32, 34, 120, 34, 58, 32, 49, 125>>   \* {"name": "A" "x": 1}
    , <<123, 34, 110, 97, 109, 101, 34, 32, 34, 65, 34, 125>>   \* {"name" "A"}
    , <<48, 49>>   \* 01
    , <<123, 34, 110, 97, 109, 101, 34, 58, 32, 49, 46, 125>>   \* {"name": 1.}
    , <<123, 34, 110, 97, 109, 101, 34, 58, 32, 43, 49, 125>>   \* {"name": +1}
    , <<123, 34, 110, 97, 109, 101, 34, 58, 32, 34, 92, 117, 49, 50, 34, 125>>   \* {"name": "\u12"}
    , <<123, 34, 110, 97, 109, 101, 34, 58, 32, 34, 92, 117, 100, 56, 51, 100, 92, 117, 49, 50, 34, 125>>   \* {"name": "\ud83d\u12"}
    , <<65279, 123, 125>>   \* <BOM>{}
    , <<123, 34, 110, 97, 109, 101, 34, 58, 32, 34, 65, 10, 34, 125>>   \* {"name": "A<LF>"}
    , <<123, 34, 110, 97, 109, 101, 34, 58, 32, 34, 92, 97, 34, 125>>   \* {"name": "\a"}
    , <<91, 49, 44, 32, 50>>   \* [1, 2
    , <<34, 65>>   \* "A
    , <<45>>   \* -
    }

EmptyTexts ==
    {
      <<>>   \* 
    , <<32, 10>>   \*  <LF>
    }

BrokenDocs ==
    { Plain(text, "malformed", "none", "n/a") : text \in MalformedTexts }
    \cup { Plain(text, "empty", "none", "n/a") : text \in EmptyTexts }

Inputs ==
    NameStringDocs \cup NameOtherDocs \cup NoNameDocs \cup DupNameDocs
    \cup NonObjectDocs \cup BrokenDocs

-----------------------------------------------------------------------------
(* The run of script.py's __main__ block (lines 8-16).                     *)

Unbound == [t |-> "unbound"]

Init ==
    /\ given \in Inputs
    /\ stdin = given.text
    /\ pc = "read"
    /\ input_data = Unbound
    /\ data = Unbound
    /\ name = Unbound
    /\ result = Unbound
    /\ encoded = Unbound
    /\ stdout = <<>>
    /\ raised = ""
    /\ exit_status = -1

\* an exception nothing catches: the interpreter reports it on standard
\* error and exits with status 1
Uncaught(exc) ==
    /\ raised' = exc
    /\ exit_status' = 1
    /\ pc' = "failed"

\* sys.stdin.readline() for read(): the text up to the first line feed
Read_FirstLine ==
    /\ pc = "read"
    /\ LET ends == {i \in 1..Len(stdin) : stdin[i] = 10}
           k    == IF ends = {} THEN Len(stdin)
                   ELSE CHOOSE i \in ends : \A j \in ends : i <= j
       IN  /\ input_data' = PyStrVal(SubSeq(stdin, 1, k))
           /\ stdin' = SubSeq(stdin, k + 1, Len(stdin))
    /\ pc' = "loads"
    /\ UNCHANGED <<given, data, name, result, encoded, stdout, raised, exit_status>>

\* line 10: input_data = sys.stdin.read()
Read ==
    /\ pc = "read"
    /\ input_data' = PyStrVal(stdin)
    /\ stdin' = <<>>
    /\ pc' = "loads"
    /\ UNCHANGED <<given, data, name, result, encoded, stdout, raised, exit_status>>

\* line 11: data = json.loads(input_data)
Loads ==
    /\ pc = "loads"
    /\ \E r \in {JsonLoads(input_data.v)} :
       IF r.ok
       THEN /\ data' = r.val
            /\ pc' = "get"
            /\ UNCHANGED <<raised, exit_status>>
       ELSE /\ Uncaught("JSONDecodeError")
            /\ UNCHANGED data
    /\ UNCHANGED <<given, stdin, input_data, name, result, encoded, stdout>>

\* line 12: name = data.get("name", "World"); only a dict has .get
GetName ==
    /\ pc = "get"
    /\ IF data.t = "dict"
       THEN /\ name' = LookupName(data)
            /\ pc' = "greet"
            /\ UNCHANGED <<raised, exit_status>>
       ELSE /\ Uncaught("AttributeError")
            /\ UNCHANGED name
    /\ UNCHANGED <<given, stdin, input_data, data, result, encoded, stdout>>

\* line 15: result = {"message": greet(name)}
Greet ==
    /\ pc = "greet"
    /\ \E g \in {CallGreet(<<name>>)} :
       IF g.t = "error"
       THEN /\ Uncaught(g.exc)
            /\ UNCHANGED result
       ELSE /\ result' = MakeResult(g)
            /\ pc' = "dumps"
            /\ UNCHANGED <<raised, exit_status>>
    /\ UNCHANGED <<given, stdin, input_data, data, name, encoded, stdout>>

\* line 16, the argument: json.dumps(result)
Dumps ==
    /\ pc = "dumps"
    /\ encoded' = PyStrVal(JsonDumps(result))
    /\ pc' = "print"
    /\ UNCHANGED <<given, stdin, input_data, data, name, result, stdout, raised,
                   exit_status>>

\* line 16: print(...) writes str(argument) and end="\n"; the script ends
\* and the process exits with status 0
PrintLine ==
    /\ pc = "print"
    /\ stdout' = stdout \o PyStr(encoded) \o <<10>>
    /\ exit_status' = 0
    /\ pc' = "done"
    /\ UNCHANGED <<given, stdin, input_data, data, name, result, encoded, raised>>

Next == Read \/ Loads \/ GetName \/ Greet \/ Dumps \/ PrintLine

Spec == Init /\ [][Next]_vars

\* the interpreter runs the script to its end
FairSpec == Spec /\ WF_vars(Next)

-----------------------------------------------------------------------------
(* greet called on its own, as an importer of the module calls it (the     *)
(* __main__ guard of line 8 keeps the pipeline from running then).         *)

\* the values a "name" lookup can yield on the inputs above
NameValues ==
    { LookupName(JsonLoads(g.text).val) : g \in {h \in Inputs : h.root = "object"} }

\* the argument lists of the calls: none, one value, two values
GreetArgs ==
    {<<>>, <<PyNone, PyNone>>} \cup {<<v>> : v \in NameValues}

GreetInit ==
    /\ given \in {[args |-> a] : a \in GreetArgs}
    /\ pc = "call"
    /\ stdin = <<>>
    /\ input_data = Unbound
    /\ data = Unbound
    /\ name = Unbound
    /\ result = Unbound
    /\ encoded = Unbound
    /\ stdout = <<>>
    /\ raised = ""
    /\ exit_status = -1

\* greet(*args), lines 4-5
GreetCall ==
    /\ pc = "call"
    /\ \E g \in {CallGreet(given.args)} :
       IF g.t = "error"
       THEN /\ raised' = g.exc
            /\ pc' = "raised"
            /\ UNCHANGED result
       ELSE /\ result' = g
            /\ pc' = "returned"
            /\ UNCHANGED raised
    /\ UNCHANGED <<given, stdin, input_data, data, name, encoded, stdout, exit_status>>

GreetNext == GreetCall

SpecGreet == GreetInit /\ [][GreetNext]_vars

-----------------------------------------------------------------------------
\* what a run on the given text leaves on standard output (<<>> when it
\* fails): the composition of the steps above
RunOutput(text) ==
    LET r == JsonLoads(text) IN
    IF ~r.ok THEN <<>>
    ELSE IF r.val.t # "dict" THEN <<>>
    ELSE LET g == CallGreet(<<LookupName(r.val)>>) IN
         IF g.t = "error" THEN <<>>
         ELSE JsonDumps(MakeResult(g)) \o <<10>>

TypeOK ==
    /\ pc \in {"read", "loads", "get", "greet", "dumps", "print", "done", "failed"}
    /\ exit_status \in {-1, 0, 1}

-----------------------------------------------------------------------------
(* Vocabulary of the properties.                                           *)

Terminated == pc \in {"done", "failed"}
Succeeded  == pc = "done" /\ exit_status = 0
Failed     == pc = "failed" /\ exit_status # 0

\* the JSON value standard output parses to
Response == JsonLoads(stdout)

\* standard output holds a JSON object with the single member "message",
\* a string
IsMessageObject ==
    /\ Response.ok
    /\ Response.val.t = "dict"
    /\ Len(Response.val.v) = 1
    /\ Response.val.v[1].key = Txt_message
    /\ Response.val.v[1].val.t = "str"

\* ... whose "message" is "Hello, " + text + "!"
WroteHello(text) ==
    /\ IsMessageObject
    /\ Response.val.v[1].val.v = Txt_Hello \o text \o <<33>>

\* the line {"message": "Hello, World!"}
HelloWorldLine ==
    <<123, 34, 109, 101, 115, 115, 97, 103, 101, 34, 58, 32, 34, 72, 101, 108, 108, 111, 44, 32, 87, 111, 114, 108, 100, 33, 34, 125, 10>>

\* the composition RunOutput is what a run writes
RunOutputAgrees == pc = "done" => stdout = RunOutput(given.text)

-----------------------------------------------------------------------------
\* C1: for every string n, a run on a JSON object whose "name" entry is the
\* string n never fails, and when it has ended it has exit status 0 and has
\* written a JSON object whose "message" is exactly "Hello, " + n + "!".
C1_GreetsGivenName ==
    given.shape = "name_str" =>
        /\ pc # "failed"
        /\ pc = "done" => (exit_status = 0 /\ WroteHello(given.n))

\* a run on {"name": "\ud83d\ude00"} (U+1F600 written as two escapes) has
\* ended
C1_Witness ==
    /\ pc = "done"
    /\ given.shape = "name_str"
    /\ given.n = <<128512>>
    /\ Len(given.lit) = 14

\* C2: for every JSON object without a "name" key the run never fails, and
\* when it has ended it has exit status 0 and standard output is the line
\* {"message": "Hello, World!"}.
C2_MissingNameIsWorld ==
    (given.shape = "no_name" /\ given.syntax = "json") =>
        /\ pc # "failed"
        /\ pc = "done" => (exit_status = 0 /\ stdout = HelloWorldLine)

\* a run on an object that has only other keys has ended
C2_Witness ==
    /\ pc = "done"
    /\ given.shape = "no_name"
    /\ given.text = <<123, 34, 105, 100, 34, 58, 32, 55, 44, 32, 34, 120, 34, 58, 32, 91, 34, 110, 97, 109, 101, 34, 44, 32, 110, 117, 108, 108, 93, 125>>

\* C3 as claimed: every input that is empty, is not a JSON text, or is a
\* JSON text whose root is no object never writes to standard output and
\* ends in the failure state with a non-zero exit status.
C3_Claimed ==
    (given.syntax \in {"empty", "malformed", "nonfinite"} \/ given.root = "other") =>
        /\ stdout = <<>>
        /\ Terminated => Failed

\* C3 as amended: the same for every input that is empty, that json.loads
\* rejects (NaN, Infinity and -Infinity in value position are accepted), or
\* whose root value is no object.
C3_RejectedInputFails ==
    (given.syntax \in {"empty", "malformed"} \/ given.root = "other") =>
        /\ stdout = <<>>
        /\ Terminated => Failed

\* a run on a JSON text whose root is no object has ended, on the missing
\* .get
C3_Witness ==
    /\ pc = "failed"
    /\ given.syntax = "json"
    /\ given.root = "other"
    /\ raised = "AttributeError"

\* str() of the decoded "name" literals, as CPython 3.11 prints them
PythonStrOf ==
       (<<110, 117, 108, 108>> :> <<78, 111, 110, 101>>)   \* null  ->  None
    @@ (<<116, 114, 117, 101>> :> <<84, 114, 117, 101>>)   \* true  ->  True
    @@ (<<102, 97, 108, 115, 101>> :> <<70, 97, 108, 115, 101>>)   \* false  ->  False
    @@ (<<48>> :> <<48>>)   \* 0  ->  0
    @@ (<<45, 48>> :> <<48>>)   \* -0  ->  0
    @@ (<<52, 50>> :> <<52, 50>>)   \* 42  ->  42
    @@ (<<45, 55>> :> <<45, 55>>)   \* -7  ->  -7
    @@ (<<49, 46, 53, 48>> :> <<49, 46, 53>>)   \* 1.50  ->  1.5
    @@ (<<45, 48, 46, 48>> :> <<45, 48, 46, 48>>)   \* -0.0  ->  -0.0
    @@ (<<91, 93>> :> <<91, 93>>)   \* []  ->  []
    @@ (<<123, 125>> :> <<123, 125>>)   \* {}  ->  {}
    @@ (<<91, 49, 44, 32, 34, 65, 39, 34, 44, 32, 116, 114, 117, 101, 44, 32, 50, 46, 48, 93>> :> <<91, 49, 44, 32, 34, 65, 39, 34, 44, 32, 84, 114, 117, 101, 44, 32, 50, 46, 48, 93>>)   \* [1, "A'", true, 2.0]  ->  [1, "A'", True, 2.0]
    @@ (<<123, 34, 97, 34, 58, 32, 110, 117, 108, 108, 44, 32, 34, 98, 34, 58, 32, 34, 92, 110, 92, 34, 39, 34, 125>> :> <<123, 39, 97, 39, 58, 32, 78, 111, 110, 101, 44, 32, 39, 98, 39, 58, 32, 39, 92, 110, 34, 92, 39, 39, 125>>)   \* {"a": null, "b": "\n\"'"}  ->  {'a': None, 'b': '\n"\''}
    @@ (<<78, 97, 78>> :> <<110, 97, 110>>)   \* NaN  ->  nan
    @@ (<<73, 110, 102, 105, 110, 105, 116, 121>> :> <<105, 110, 102>>)   \* Infinity  ->  inf
    @@ (<<45, 73, 110, 102, 105, 110, 105, 116, 121>> :> <<45, 105, 110, 102>>)   \* -Infinity  ->  -inf
    @@ (<<91, 78, 97, 78, 93>> :> <<91, 110, 97, 110, 93>>)   \* [NaN]  ->  [nan]

\* C4 as claimed: for an object whose "name" value is no JSON string the
\* output is {"message": "Hello, World!"}.
C4_Claimed ==
    (given.shape = "name_other" /\ given.syntax = "json" /\ pc = "done") =>
        stdout = HelloWorldLine

\* C4 as amended: a "name" entry is used whenever it is present, whatever
\* its type: for a value that is no string the greeting is built from
\* Python's str() of the decoded value, never from the default.
C4_NameUsedWhateverType ==
    (given.shape = "name_other" /\ pc = "done") =>
        /\ WroteHello(PythonStrOf[given.lit])
        /\ stdout # HelloWorldLine

\* a run on {"name": null} has ended
C4_Witness ==
    /\ pc = "done"
    /\ given.shape = "name_other"
    /\ given.lit = Lit_null
    /\ name = PyNone

\* C5: whenever something is on standard output, it parses as a JSON object
\* with exactly one key, "message", whose value is a string, whatever the
\* type of the input's "name" value and whatever other keys it has.
C5_OutputIsMessageObject == stdout # <<>> => IsMessageObject

\* output was written for an input whose "name" is an array and that has
\* other keys before and after it
C5_Witness ==
    /\ stdout # <<>>
    /\ given.shape = "name_other"
    /\ name.t = "list"
    /\ given.pre # <<>>
    /\ given.post # <<>>

\* C6: a decoding failure (a JSONDecodeError, or the AttributeError on a
\* root that is no object) is the only failure: a run on a JSON object, with
\* any keys and a "name" of any JSON type, never fails, and when it has ended
\* it has exit status 0 and one response on standard output.
C6_OnlyDecodingFails ==
    /\ (given.syntax = "json" /\ given.root = "object") =>
           /\ pc # "failed"
           /\ pc = "done" => (exit_status = 0 /\ stdout # <<>>)
    /\ pc = "failed" =>
           \/ raised = "JSONDecodeError" /\ given.root = "none"
           \/ raised = "AttributeError" /\ given.root = "other"

\* a run on an object whose "name" is itself an object has ended
C6_Witness ==
    /\ Succeeded
    /\ given.syntax = "json"
    /\ given.shape = "name_other"
    /\ name.t = "dict"
    /\ Len(name.v) = 2

\* C7: two input objects that agree on the presence and value of "name"
\* produce the same output: what a run has written is what a run writes on
\* every input with the same "name" literal and other members before and
\* after it, and on every other object without "name" when it has none.
C7_OnlyNameIsRead ==
    pc = "done" =>
        /\ given.shape \in {"name_str", "name_other"} =>
               \A pre \in Pres, post \in Posts :
                   RunOutput(ObjectText(pre, given.lit, post)) = stdout
        /\ given.shape = "no_name" =>
               \A text \in NoNameTexts : RunOutput(text) = stdout

\* a run has ended on an object with a string "name" between two other
\* members
C7_Witness ==
    /\ pc = "done"
    /\ given.shape = "name_str"
    /\ given.pre # <<>>
    /\ given.post # <<>>
    /\ Len(given.n) > 0

\* C9: after a successful run standard output is exactly one line: the
\* serialized response, which holds no line feed, followed by one line feed;
\* a run that has not succeeded has written nothing.
C9_OneLine ==
    /\ pc = "done" =>
           /\ Len(stdout) >= 2
           /\ stdout[Len(stdout)] = 10
           /\ \A i \in 1..(Len(stdout) - 1) : stdout[i] # 10
           /\ SubSeq(stdout, 1, Len(stdout) - 1) = encoded.v
    /\ pc # "done" => stdout = <<>>

\* a run has ended on a name that holds a line feed
C9_Witness ==
    /\ pc = "done"
    /\ name.t = "str"
    /\ \E i \in 1..Len(name.v) : name.v[i] = 10

\* "Hello, World!"
Txt_HelloWorld == Txt_Hello \o Txt_World \o <<33>>

\* C8 as claimed: greet resolves the default itself: called with a string
\* it returns "Hello, " + name + "!", called with no name (no argument, or
\* None for the optional name) it returns "Hello, World!", and no call has
\* an error outcome.
C8_Claimed ==
    pc # "call" =>
        /\ pc = "returned"
        /\ given.args \in {<<>>, <<PyNone>>} => result.v = Txt_HelloWorld
        /\ (Len(given.args) = 1 /\ given.args[1].t = "str") =>
               result.v = Txt_Hello \o given.args[1].v \o <<33>>

\* C8 as amended: greet formats the one argument it requires and has no
\* error outcome for any value of it: a string n gives "Hello, " + n + "!"
\* and None gives "Hello, None!"; it never substitutes "World", and a call
\* without exactly one argument raises TypeError.
C8_GreetFormatsItsArgument ==
    /\ pc = "raised" => (Len(given.args) # 1 /\ raised = "TypeError")
    /\ pc = "returned" =>
           /\ Len(given.args) = 1
           /\ result.t = "str"
           /\ given.args[1].t = "str" =>
                  result.v = Txt_Hello \o given.args[1].v \o <<33>>
           /\ given.args[1].t = "none" =>
                  result.v = <<72, 101, 108, 108, 111, 44, 32, 78, 111, 110, 101, 33>>
           /\ given.args[1].t # "str" => result.v # Txt_HelloWorld

\* greet() has been called without an argument
C8_Witness ==
    /\ pc = "raised"
    /\ given.args = <<>>

\* the steps of the pipeline in order, and the two that can fail
PipelineOrder ==
    { <<"read", "loads">>, <<"loads", "get">>, <<"get", "greet">>,
      <<"greet", "dumps">>, <<"dumps", "print">>, <<"print", "done">>,
      <<"loads", "failed">>, <<"get", "failed">> }

\* a step of the run follows that order
StepInOrder == <<pc, pc'>> \in PipelineOrder

\* C10: the steps happen in the order read, decode, transform, encode,
\* write, each at most once; the read consumes the whole of standard input;
\* output is on standard output only after decoding, lookup, greeting and
\* encoding have succeeded, so a failed run has written nothing; and every
\* run ends, in the success state or in the failure state.
C10_LinearRun ==
    /\ [][StepInOrder]_vars
    /\ [](pc # "read" => stdin = <<>>)
    /\ [](stdout # <<>> =>
              /\ pc = "done"
              /\ data.t = "dict"
              /\ name.t # "unbound"
              /\ result.t = "dict"
              /\ encoded.t = "str")
    /\ [](pc = "failed" => (stdout = <<>> /\ exit_status = 1))
    /\ [](pc = "done" => exit_status = 0)
    /\ <>Terminated

\* a run on a text of several lines has ended with its output written
C10_Witness ==
    /\ pc = "done"
    /\ stdout # <<>>
    /\ stdin = <<>>
    /\ \E i \in 1..(Len(given.text) - 1) : given.text[i] = 10

====
